---------------------------- MODULE Spec2Model ----------------------------
(***************************************************************************)
(* A model of pdfmerge.py: the page-range parser (parse_range), the range  *)
(* resolver (page_indices) and the merge driver (main).                    *)
(*                                                                         *)
(* Strings are sequences of one-character strings.  An optional integer    *)
(* (Python's None or an int) is the empty tuple or a one-element tuple.    *)
(* The result of a call that may raise is a record [err, val]: err is ""   *)
(* when the call returned val, and the exception's name otherwise.         *)
(***************************************************************************)
EXTENDS Integers, Sequences, FiniteSets, TLC

VARIABLES
    pr_spec,    \* parse_range: the argument `spec`
    pr_ret,     \* parse_range: what the call produced
    pi_ranges,  \* page_indices: the argument `ranges`
    pi_total,   \* page_indices: the argument `total`
    pi_ret,     \* page_indices: what the call produced
    args,       \* main: the parsed command line (argparse namespace)
    pc,         \* main: the position of the run
    ranges,     \* main: the range list normalised to the inputs
    k,          \* main: the position of the for loop over zip(inputs, ranges)
    writer,     \* main: the PdfWriter (pages, outline, metadata)
    stdout,     \* main: the lines printed to standard output
    stderr,     \* main: the lines printed to standard error
    exit_code,  \* main: the process's exit status, -1 while it runs
    outfile,    \* main: the output file (times opened, what was written)
    touched,    \* main: the input positions whose file was tested or read
    docs        \* main: per input reached, what the file system/library gave

vars == << pr_spec, pr_ret, pi_ranges, pi_total, pi_ret, args, pc, ranges, k,
           writer, stdout, stderr, exit_code, outfile, touched, docs >>

parseVars == << pr_spec, pr_ret >>
resolveVars == << pi_ranges, pi_total, pi_ret >>
mainVars == << args, pc, ranges, k, writer, stdout, stderr, exit_code,
               outfile, touched, docs >>

-----------------------------------------------------------------------------
(* Bounds of the model. *)

MaxSpecLen == 4
MaxIntervals == 2
MaxTotal == 3
MaxInputs == 2
MaxPages == 2

-----------------------------------------------------------------------------
(* Python values. *)

None == << >>
Some(n) == << n >>
IsNone(x) == x = << >>
Val(x) == x[1]

Ok(v) == [err |-> "", val |-> v]
Raise(e) == [err |-> e, val |-> << >>]
Raised(r) == r.err # ""

Range(s) == { s[j] : j \in DOMAIN s }

Min2(a, b) == IF a <= b THEN a ELSE b
Max2(a, b) == IF a >= b THEN a ELSE b

\* sorted(S): the members of a set of integers in ascending order (used by
\* the properties and by the variants of the code they are tried against)
Ascending(S) ==
    [ j \in 1..Cardinality(S) |->
        CHOOSE x \in S : Cardinality({ y \in S : y < x }) = j - 1 ]

\* range(a, b) as a list: a, a+1, ..., b-1
PyRange(a, b) == [ j \in 1..Max2(0, b - a) |-> a + j - 1 ]

-----------------------------------------------------------------------------
(* Python string operations used by parse_range. *)

Whitespace == { " " }
Digits == { "0", "1", "2", "3", "4", "5", "6", "7", "8", "9" }

DigitVal(c) ==
    CASE c = "0" -> 0 [] c = "1" -> 1 [] c = "2" -> 2 [] c = "3" -> 3
      [] c = "4" -> 4 [] c = "5" -> 5 [] c = "6" -> 6 [] c = "7" -> 7
      [] c = "8" -> 8 [] c = "9" -> 9

\* the position of the first c in s, 0 when there is none
Find(s, c) ==
    IF c \in Range(s)
    THEN CHOOSE j \in DOMAIN s : s[j] = c /\ \A h \in 1..(j - 1) : s[h] # c
    ELSE 0

RECURSIVE LStrip(_)
LStrip(s) ==
    IF s # << >> /\ Head(s) \in Whitespace THEN LStrip(Tail(s)) ELSE s

RECURSIVE RStrip(_)
RStrip(s) ==
    IF s # << >> /\ s[Len(s)] \in Whitespace
    THEN RStrip(SubSeq(s, 1, Len(s) - 1))
    ELSE s

\* str.strip()
Strip(s) == RStrip(LStrip(s))

\* str.split(sep): always at least one piece
RECURSIVE Split(_, _)
Split(s, sep) ==
    LET p == Find(s, sep)
    IN  IF p = 0
        THEN << s >>
        ELSE << SubSeq(s, 1, p - 1) >> \o Split(SubSeq(s, p + 1, Len(s)), sep)

\* str.split(sep, 1), for a string that contains sep
Split1(s, sep) ==
    LET p == Find(s, sep)
    IN  << SubSeq(s, 1, p - 1), SubSeq(s, p + 1, Len(s)) >>

RECURSIVE DecVal(_)
DecVal(ds) ==
    IF ds = << >> THEN 0
    ELSE 10 * DecVal(SubSeq(ds, 1, Len(ds) - 1)) + DigitVal(ds[Len(ds)])

\* digits, single underscores allowed between two digits
ValidDigits(b) ==
    /\ b # << >>
    /\ \A j \in DOMAIN b : b[j] \in Digits \cup { "_" }
    /\ b[1] \in Digits /\ b[Len(b)] \in Digits
    /\ \A j \in 1..(Len(b) - 1) : ~(b[j] = "_" /\ b[j + 1] = "_")

\* int(s): surrounding whitespace, an optional sign, decimal digits
PyInt(s) ==
    LET t == Strip(s)
        signed == t # << >> /\ Head(t) \in { "+", "-" }
        body == IF signed THEN Tail(t) ELSE t
        mag == DecVal(SelectSeq(body, LAMBDA c : c \in Digits))
    IN  IF ~ValidDigits(body) THEN Raise("ValueError")
        ELSE IF signed /\ Head(t) = "-" THEN Ok(0 - mag)
        ELSE Ok(mag)

-----------------------------------------------------------------------------
(* parse_range(spec) *)

\* parse_range with token.rsplit("-", 1): the token cut at its last "-"
ParseTokenLastDash(token) ==
    LET dashes == { j \in DOMAIN token : token[j] = "-" }
        d == CHOOSE j \in dashes : \A h \in dashes : h <= j
        a == SubSeq(token, 1, d - 1)
        b == SubSeq(token, d + 1, Len(token))
        n == PyInt(token)
    IN  IF dashes = { }
        THEN IF Raised(n) THEN n ELSE Ok(<< Some(n.val), Some(n.val) >>)
        ELSE IF a # << >> /\ Raised(PyInt(a)) THEN PyInt(a)
        ELSE IF b # << >> /\ Raised(PyInt(b)) THEN PyInt(b)
        ELSE Ok(<< IF a # << >> THEN Some(PyInt(a).val) ELSE None,
                   IF b # << >> THEN Some(PyInt(b).val) ELSE None >>)

\* one token of the loop body: the tuple appended to parts, or the error
ParseToken(token) ==
    IF "-" \in Range(token)
    THEN LET ab == Split1(token, "-")
             a == ab[1]
             b == ab[2]
             start == IF a # << >> THEN PyInt(a) ELSE Ok(None)
             end == IF b # << >> THEN PyInt(b) ELSE Ok(None)
         IN  IF Raised(start) THEN start
             ELSE IF Raised(end) THEN end
             ELSE Ok(<< IF a # << >> THEN Some(start.val) ELSE None,
                        IF b # << >> THEN Some(end.val) ELSE None >>)
    ELSE LET n == PyInt(token)
         IN  IF Raised(n) THEN n ELSE Ok(<< Some(n.val), Some(n.val) >>)

RECURSIVE ParseTokens(_, _)
ParseTokens(tokens, parts) ==
    IF tokens = << >> THEN Ok(parts)
    ELSE LET token == Strip(Head(tokens))
         IN  IF token = << >> THEN ParseTokens(Tail(tokens), parts)
             ELSE LET t == ParseToken(token)
                  IN  IF Raised(t) THEN t
                      ELSE ParseTokens(Tail(tokens), Append(parts, t.val))

parse_range(spec) == ParseTokens(Split(spec, ","), << >>)

-----------------------------------------------------------------------------
(* page_indices(ranges, total) *)

\* page_indices without line 31: the bounds are not clamped
ContributionUnclamped(r, total) ==
    LET s0 == IF IsNone(r[1]) THEN 1 ELSE Val(r[1])
        e0 == IF IsNone(r[2]) THEN total ELSE Val(r[2])
    IN  IF s0 <= e0 THEN PyRange(s0 - 1, e0) ELSE << >>

\* page_indices with both bounds clamped into [1, total] on line 31
ContributionBothClamped(r, total) ==
    LET s0 == Min2(total, Max2(1, IF IsNone(r[1]) THEN 1 ELSE Val(r[1])))
        e0 == Max2(1, Min2(total, IF IsNone(r[2]) THEN total ELSE Val(r[2])))
    IN  IF s0 <= e0 THEN PyRange(s0 - 1, e0) ELSE << >>

\* lines 28-33: what one (s, e) of the loop appends to idx
Contribution(r, total) ==
    LET s == r[1]
        e == r[2]
        s0 == Max2(1, IF IsNone(s) THEN 1 ELSE Val(s))
        e0 == Min2(total, IF IsNone(e) THEN total ELSE Val(e))
    IN  IF s0 <= e0 THEN PyRange(s0 - 1, e0) ELSE << >>

RECURSIVE Extend(_, _, _)
Extend(rs, total, idx) ==
    IF rs = << >> THEN idx
    ELSE Extend(Tail(rs), total, idx \o Contribution(Head(rs), total))

\* lines 35-38: the loop over idx with the set `seen` and the list `out`
RECURSIVE Dedup(_, _, _)
Dedup(idx, seen, out) ==
    IF idx = << >> THEN out
    ELSE IF Head(idx) \notin seen
         THEN Dedup(Tail(idx), seen \cup { Head(idx) }, Append(out, Head(idx)))
         ELSE Dedup(Tail(idx), seen, out)

\* page_indices returning sorted(set(idx))
page_indicesSorted(rs, total) ==
    IF rs = << >> THEN PyRange(0, total)
    ELSE Ascending(Range(Extend(rs, total, << >>)))

page_indices(rs, total) ==
    IF rs = << >> THEN PyRange(0, total)
    ELSE Dedup(Extend(rs, total, << >>), { }, << >>)

-----------------------------------------------------------------------------
(* The inputs the two functions are applied to. *)

Chars == { "0", "1", "2", "-", ",", " ", "x" }

Strings(n) == UNION { [ 1..m -> Chars ] : m \in 0..n }

Bounds == { None } \cup { Some(n) : n \in (0 - 1)..(MaxTotal + 1) }

Intervals == Bounds \X Bounds

IntervalLists == UNION { [ 1..m -> Intervals ] : m \in 0..MaxIntervals }

NotCalled == Raise("not called")

IdleParse == pr_spec = << >> /\ pr_ret = NotCalled
IdleResolve == pi_ranges = << >> /\ pi_total = 0 /\ pi_ret = NotCalled

-----------------------------------------------------------------------------
(* parse_range applied to every short string. *)

CallParseRange ==
    /\ pr_ret = NotCalled
    /\ pr_ret' = parse_range(pr_spec)
    /\ UNCHANGED << pr_spec, resolveVars, mainVars >>

(* page_indices applied to every short interval list and every small total. *)

CallPageIndices ==
    /\ pi_ret = NotCalled
    /\ pi_ret' = Ok(page_indices(pi_ranges, pi_total))
    /\ UNCHANGED << pi_ranges, pi_total, parseVars, mainVars >>

-----------------------------------------------------------------------------
(* main(): the command line. *)

\* the path of the i-th positional argument
InputPath(i) ==
    IF i % 2 = 1 THEN << "d", "/", "f", ToString(i) >> ELSE << "g", ToString(i) >>

\* os.path.basename: what follows the last "/"
Basename(p) ==
    LET slashes == { j \in DOMAIN p : p[j] = "/" }
        last == IF slashes = { } THEN 0
                ELSE CHOOSE j \in slashes : \A h \in slashes : h <= j
    IN  SubSeq(p, last + 1, Len(p))

\* the strings given with -r
RangeSpecs ==
    { << "2", "-" >>, << "2", ",", "1" >>, << "," >>, << "x" >> }

\* -m: absent, a string json.loads rejects, or an object with these keys
Metadatas ==
    { [kind |-> "none", keys |-> { }],
      [kind |-> "bad", keys |-> { }],
      [kind |-> "object", keys |-> { "Title", "Foo" }] }

\* args.range is None (here the empty list) or the list of the -r strings
ArgsSet ==
    UNION { [ inputs : { [ i \in 1..n |-> InputPath(i) ] },
              range : UNION { [ 1..m -> RangeSpecs ] : m \in 0..(n + 1) },
              bookmarks : BOOLEAN,
              exclude_encrypted : BOOLEAN,
              quiet : BOOLEAN,
              verbose : BOOLEAN,
              metadata : Metadatas ] : n \in 1..MaxInputs }

NewWriter == [pages |-> << >>, outline |-> << >>, info |-> { }]

NoFile == [opens |-> 0, content |-> << >>]

IdleMain ==
    /\ args = [inputs |-> << >>, range |-> << >>, bookmarks |-> FALSE,
               exclude_encrypted |-> FALSE, quiet |-> FALSE, verbose |-> FALSE,
               metadata |-> [kind |-> "none", keys |-> { }]]
    /\ pc = "idle"
    /\ ranges = << >>
    /\ k = 0
    /\ writer = NewWriter
    /\ stdout = << >>
    /\ stderr = << >>
    /\ exit_code = 0 - 1
    /\ outfile = NoFile
    /\ touched = { }
    /\ docs = << >>

\* sys.exit(code) after a line on standard error; an uncaught exception
\* ends the process the same way, with its traceback and status 1
Exit(code, line) ==
    /\ pc' = "exited"
    /\ exit_code' = code
    /\ stderr' = Append(stderr, line)

-----------------------------------------------------------------------------
(* main(): lines 53-67. *)

\* line 53 with the count compared to that of the ranges themselves
RangeCountUnchecked ==
    args.range = << >> \/ Len(args.range) \in { 1, Len(args.range) }

RangeCountOk ==
    args.range = << >> \/ Len(args.range) \in { 1, Len(args.inputs) }

RangeCountError ==
    /\ pc = "start"
    /\ ~RangeCountOk
    /\ Exit(2, << "If using --range" >>)
    /\ UNCHANGED << ranges, k, writer, stdout, outfile, touched, docs, args,
                    parseVars, resolveVars >>

\* lines 58-65; an absent range is None
Normalized ==
    IF args.range # << >>
    THEN IF Len(args.range) = 1
         THEN [ i \in DOMAIN args.inputs |-> Some(args.range[1]) ]
         ELSE [ i \in DOMAIN args.range |-> Some(args.range[i]) ]
    ELSE [ i \in DOMAIN args.inputs |-> None ]

Normalize ==
    /\ pc = "start"
    /\ RangeCountOk
    /\ ranges' = Normalized
    /\ writer' = NewWriter
    /\ k' = 1
    /\ pc' = "loop"
    /\ UNCHANGED << stdout, stderr, exit_code, outfile, touched, docs, args,
                    parseVars, resolveVars >>

-----------------------------------------------------------------------------
(* main(): the body of the for loop, lines 69-112.  What the file system   *)
(* and the PDF library answer for the k-th input is chosen when the loop   *)
(* reaches it.                                                             *)

\* zip(args.inputs, ranges) stops with the shorter of the two
LoopLen == Min2(Len(args.inputs), Len(ranges))

InLoop == pc = "loop" /\ k <= LoopLen

in_path == args.inputs[k]

Reach(outcome, total) ==
    /\ touched' = touched \cup { k }
    /\ docs' = Append(docs, [outcome |-> outcome, total |-> total])

\* line 71 without sys.exit(1): the missing file is reported and passed over
MissingFileContinues ==
    /\ InLoop
    /\ Reach("missing", 0)
    /\ stderr' = Append(stderr, << "Missing file", in_path >>)
    /\ k' = k + 1
    /\ UNCHANGED << ranges, writer, stdout, exit_code, pc, outfile, args,
                    parseVars, resolveVars >>

\* lines 70-71: os.path.exists(in_path) is false
MissingFile ==
    /\ InLoop
    /\ Reach("missing", 0)
    /\ Exit(1, << "Missing file", in_path >>)
    /\ UNCHANGED << ranges, k, writer, stdout, outfile, args,
                    parseVars, resolveVars >>

\* lines 77-81: reader.decrypt("") raised, -e given
SkipUndecryptable ==
    /\ InLoop
    /\ args.exclude_encrypted
    /\ Reach("undecryptable", 0)
    /\ stdout' = IF ~args.quiet
                 THEN Append(stdout, << "Skipping encrypted", in_path >>)
                 ELSE stdout
    /\ k' = k + 1
    /\ UNCHANGED << ranges, writer, stderr, exit_code, pc, outfile, args,
                    parseVars, resolveVars >>

\* line 84 without sys.exit(1): the failure is reported and passed over
FailUndecryptableNoExit ==
    /\ InLoop
    /\ ~args.exclude_encrypted
    /\ Reach("undecryptable", 0)
    /\ stderr' = Append(stderr, << "Encrypted file requires password", in_path >>)
    /\ k' = k + 1
    /\ UNCHANGED << ranges, writer, stdout, exit_code, pc, outfile, args,
                    parseVars, resolveVars >>

\* lines 82-84: reader.decrypt("") raised, -e not given
FailUndecryptable ==
    /\ InLoop
    /\ ~args.exclude_encrypted
    /\ Reach("undecryptable", 0)
    /\ Exit(1, << "Encrypted file requires password", in_path >>)
    /\ UNCHANGED << ranges, k, writer, stdout, outfile, args,
                    parseVars, resolveVars >>

\* lines 85-88: PdfReader(in_path) raised FileNotDecryptedError, -e given
SkipNotDecrypted ==
    /\ InLoop
    /\ args.exclude_encrypted
    /\ Reach("not_decrypted", 0)
    /\ stdout' = Append(stdout, << "Skipping encrypted", in_path >>)
    /\ k' = k + 1
    /\ UNCHANGED << ranges, writer, stderr, exit_code, pc, outfile, args,
                    parseVars, resolveVars >>

\* lines 89-91: PdfReader(in_path) raised FileNotDecryptedError, -e not given
FailNotDecrypted ==
    /\ InLoop
    /\ ~args.exclude_encrypted
    /\ Reach("not_decrypted", 0)
    /\ Exit(1, << "Encrypted file requires password", in_path >>)
    /\ UNCHANGED << ranges, k, writer, stdout, outfile, args,
                    parseVars, resolveVars >>

\* reader.pages of the i-th input: page j of it is << i, j >>, j from 0
ReaderPages(i, total) == [ j \in 1..total |-> << i, j - 1 >> ]

\* seq[i] of a Python list: negative i counts from the end
PyIndex(seq, i) ==
    IF 0 <= i /\ i < Len(seq) THEN Ok(seq[i + 1])
    ELSE IF i < 0 /\ 0 - i <= Len(seq) THEN Ok(seq[Len(seq) + i + 1])
    ELSE Raise("IndexError")

\* line 94: rng = parse_range(r) if r else []
Rng(r) ==
    IF ~IsNone(r) /\ Val(r) # << >> THEN parse_range(Val(r)) ELSE Ok(<< >>)

\* lines 101-106 adding the selected pages in the document's order
AddedPagesDocOrder(i, rng, indices, total) ==
    IF rng # << >>
    THEN [ j \in DOMAIN indices |->
             PyIndex(ReaderPages(i, total), Ascending(Range(indices))[j]) ]
    ELSE [ j \in 1..total |-> Ok(ReaderPages(i, total)[j]) ]

\* lines 101-106: the pages handed to writer.add_page, in order
AddedPages(i, rng, indices, total) ==
    IF rng # << >>
    THEN [ j \in DOMAIN indices |-> PyIndex(ReaderPages(i, total), indices[j]) ]
    ELSE [ j \in 1..total |-> Ok(ReaderPages(i, total)[j]) ]

\* lines 96-98
VerboseLine(path, r, rng, indices, total) ==
    << path, IF rng # << >> THEN Len(indices) ELSE total,
       IF ~IsNone(r) /\ Val(r) # << >> THEN Val(r) ELSE << "A", "L", "L" >> >>

\* line 111 without the subtraction: the page count after the input
OutlineItemAfter(path, npages, rng, indices, total) ==
    << Basename(path), npages >>

\* lines 109-112: the outline item of this input
OutlineItem(path, npages, rng, indices, total) ==
    << Basename(path),
       npages - (IF rng # << >> THEN Len(indices) ELSE total) >>

\* lines 93-112 for a file that loaded (not encrypted, or decrypted by "")
MergeInput ==
    /\ InLoop
    /\ \E total \in 0..MaxPages :
        LET r == ranges[k]
            parsed == Rng(r)
            rng == parsed.val
            indices == page_indices(rng, total)
            added == AddedPages(k, rng, indices, total)
            pages == writer.pages \o [ j \in DOMAIN added |-> added[j].val ]
        IN  /\ ~Raised(parsed)
            /\ \A j \in DOMAIN added : ~Raised(added[j])
            /\ Reach("ok", total)
            /\ stdout' = IF args.verbose
                         THEN Append(stdout,
                                VerboseLine(in_path, r, rng, indices, total))
                         ELSE stdout
            /\ writer' =
                 [writer EXCEPT
                    !.pages = pages,
                    !.outline =
                       IF args.bookmarks
                       THEN Append(@, OutlineItem(in_path, Len(pages), rng,
                                                  indices, total))
                       ELSE @]
    /\ k' = k + 1
    /\ UNCHANGED << ranges, stderr, exit_code, pc, outfile, args,
                    parseVars, resolveVars >>

\* lines 93-106 when parse_range or reader.pages[i] raises: nothing catches it
MergeInputRaises ==
    /\ InLoop
    /\ \E total \in 0..MaxPages :
        LET parsed == Rng(ranges[k])
            indices == page_indices(parsed.val, total)
            added == AddedPages(k, parsed.val, indices, total)
            bad == { j \in DOMAIN added : Raised(added[j]) }
        IN  /\ Raised(parsed) \/ bad # { }
            /\ Reach("ok", total)
            /\ Exit(1, << "Traceback",
                          IF Raised(parsed) THEN parsed.err ELSE "IndexError" >>)
    /\ UNCHANGED << ranges, k, writer, stdout, outfile, args,
                    parseVars, resolveVars >>

-----------------------------------------------------------------------------
(* main(): lines 114-129. *)

AfterLoop == pc = "loop" /\ k > LoopLen

RecognizedKeys == { "Title", "Author", "Subject", "Keywords" }

\* lines 115-122
ApplyMetadata ==
    /\ AfterLoop
    /\ args.metadata.kind # "bad"
    /\ writer' = [writer EXCEPT !.info =
                     IF args.metadata.kind = "object"
                     THEN @ \cup (args.metadata.keys \cap RecognizedKeys)
                     ELSE @]
    /\ pc' = "write"
    /\ UNCHANGED << ranges, k, stdout, stderr, exit_code, outfile, touched,
                    docs, args, parseVars, resolveVars >>

\* line 116: json.loads raises, nothing catches it
MetadataRaises ==
    /\ AfterLoop
    /\ args.metadata.kind = "bad"
    /\ Exit(1, << "Traceback", "JSONDecodeError" >>)
    /\ UNCHANGED << ranges, k, writer, stdout, outfile, touched, docs, args,
                    parseVars, resolveVars >>

\* lines 125-129
WriteOut ==
    /\ pc = "write"
    /\ outfile' = [opens |-> outfile.opens + 1, content |-> << writer >>]
    /\ stdout' = IF ~args.quiet THEN Append(stdout, << "Wrote" >>) ELSE stdout
    /\ pc' = "done"
    /\ exit_code' = 0
    /\ UNCHANGED << ranges, k, writer, stderr, touched, docs, args,
                    parseVars, resolveVars >>

-----------------------------------------------------------------------------
(* The specifications. *)

\* one run of main() from every command line of ArgsSet
Init ==
    /\ IdleParse
    /\ IdleResolve
    /\ args \in ArgsSet
    /\ pc = "start"
    /\ ranges = << >>
    /\ k = 0
    /\ writer = NewWriter
    /\ stdout = << >>
    /\ stderr = << >>
    /\ exit_code = 0 - 1
    /\ outfile = NoFile
    /\ touched = { }
    /\ docs = << >>

Next ==
    \/ RangeCountError
    \/ Normalize
    \/ MissingFile
    \/ SkipUndecryptable
    \/ FailUndecryptable
    \/ SkipNotDecrypted
    \/ FailNotDecrypted
    \/ MergeInput
    \/ MergeInputRaises
    \/ ApplyMetadata
    \/ MetadataRaises
    \/ WriteOut

Spec == Init /\ [][Next]_vars

\* parse_range on every string of at most MaxSpecLen characters
InitParse ==
    /\ pr_spec \in Strings(MaxSpecLen)
    /\ pr_ret = NotCalled
    /\ IdleResolve
    /\ IdleMain

NextParse == CallParseRange

SpecParse == InitParse /\ [][NextParse]_vars

\* page_indices on every list of at most MaxIntervals intervals
InitResolve ==
    /\ pi_ranges \in IntervalLists
    /\ pi_total \in 0..MaxTotal
    /\ pi_ret = NotCalled
    /\ IdleParse
    /\ IdleMain

NextResolve == CallPageIndices

SpecResolve == InitResolve /\ [][NextResolve]_vars

-----------------------------------------------------------------------------
(* Properties of parse_range, under SpecParse. *)

ParseCalled == pr_ret # NotCalled

\* the pieces of s between its commas, by the positions of the commas
Pieces(s) ==
    LET cuts == { 0, Len(s) + 1 } \cup { j \in DOMAIN s : s[j] = "," }
        nth(m) == CHOOSE c \in cuts : Cardinality({ d \in cuts : d < c }) = m
    IN  [ m \in 1..(Cardinality(cuts) - 1) |->
            SubSeq(s, nth(m - 1) + 1, nth(m) - 1) ]

\* a piece without the whitespace around it
Trimmed(t) ==
    LET ink == { j \in DOMAIN t : t[j] \notin Whitespace }
    IN  IF ink = { } THEN << >>
        ELSE SubSeq(t, CHOOSE j \in ink : \A h \in ink : j <= h,
                       CHOOSE j \in ink : \A h \in ink : h <= j)

\* the non-empty tokens of s, in order
Tokens(s) == SelectSeq([ m \in DOMAIN Pieces(s) |-> Trimmed(Pieces(s)[m]) ],
                       LAMBDA t : t # << >>)

\* the two sides of a token at its first "-"; a token without one is both
Sides(t) ==
    LET dashes == { j \in DOMAIN t : t[j] = "-" }
        d == CHOOSE j \in dashes : \A h \in dashes : j <= h
    IN  IF dashes = { } THEN << t, t >>
        ELSE << SubSeq(t, 1, d - 1), SubSeq(t, d + 1, Len(t)) >>

BoundOf(side) == IF side = << >> THEN None ELSE Some(PyInt(side).val)

TokenFails(t) ==
    \E j \in 1..2 : Sides(t)[j] # << >> /\ Raised(PyInt(Sides(t)[j]))

ExpectedParts(s) ==
    [ m \in DOMAIN Tokens(s) |->
        << BoundOf(Sides(Tokens(s)[m])[1]), BoundOf(Sides(Tokens(s)[m])[2]) >> ]

\* C9 as amended: parse_range fails with the integer-parse error when a
\* non-empty side of some token is not an integer, and otherwise returns one
\* interval per non-empty comma-separated token, in token order: (N, N) for a
\* token without "-", and for a token with "-" the two sides of its first
\* "-", an empty side being None and a non-empty side int() of it, which may
\* be zero or negative.
C9_ParseRangeStructure ==
    ParseCalled =>
        IF \E m \in DOMAIN Tokens(pr_spec) : TokenFails(Tokens(pr_spec)[m])
        THEN pr_ret = Raise("ValueError")
        ELSE pr_ret = Ok(ExpectedParts(pr_spec))

AllBoundsPositive(parts) ==
    \A m \in DOMAIN parts : \A j \in 1..2 :
        IsNone(parts[m][j]) \/ Val(parts[m][j]) >= 1

\* C9 as claimed: in addition every bound returned is None or a positive
\* integer; no zero or negative bound is ever returned.
C9_NoZeroOrNegativeBound ==
    (ParseCalled /\ ~Raised(pr_ret)) => AllBoundsPositive(pr_ret.val)

\* "-1,0" and its like: an open-ended token and a plain token whose bound
\* is not positive
C9_Witness ==
    /\ ParseCalled /\ ~Raised(pr_ret)
    /\ Len(pr_ret.val) = 2
    /\ pr_ret.val[1] = << None, Some(1) >>
    /\ pr_ret.val[2] = << Some(0), Some(0) >>

-----------------------------------------------------------------------------
(* Properties of page_indices, under SpecResolve. *)

ResolveCalled == pi_ret # NotCalled

\* the interval's bounds with None replaced
StartOf(r, total) == IF IsNone(r[1]) THEN 1 ELSE Val(r[1])
EndOf(r, total) == IF IsNone(r[2]) THEN total ELSE Val(r[2])

\* 4.2: start raised to max(1, start), end lowered to min(total, end)
Emitted(r, total) ==
    LET a == IF StartOf(r, total) < 1 THEN 1 ELSE StartOf(r, total)
        b == IF EndOf(r, total) > total THEN total ELSE EndOf(r, total)
    IN  IF a > b THEN << >> ELSE [ j \in 1..(b - a + 1) |-> a - 2 + j ]

RECURSIVE Concatenated(_, _)
Concatenated(rs, total) ==
    IF rs = << >> THEN << >>
    ELSE Concatenated(SubSeq(rs, 1, Len(rs) - 1), total)
            \o Emitted(rs[Len(rs)], total)

\* q without every element that occurred earlier in q
FirstOccurrences(q) ==
    LET keep == { p \in DOMAIN q : \A h \in 1..(p - 1) : q[h] # q[p] }
    IN  [ j \in 1..Cardinality(keep) |-> q[Ascending(keep)[j]] ]

Resolved(rs, total) ==
    IF Len(rs) = 0 THEN [ j \in 1..total |-> j - 1 ]
    ELSE FirstOccurrences(Concatenated(rs, total))

Example5 ==
    << << Some(1), Some(1) >>, << Some(3), Some(3) >>, << Some(8), Some(12) >>,
       << None, Some(5) >>, << Some(7), None >> >>

Example5Resolved ==
    << 0, 2, 7, 8, 9, 10, 11, 1, 3, 4, 6 >> \o [ j \in 1..8 |-> 11 + j ]

\* C1: page_indices returns 0..total-1 for the empty list, and otherwise the
\* concatenation, in interval order, of each interval's ascending indices
\* start-1..end-1 (None start = 1, None end = total, start raised to 1, end
\* lowered to total, nothing when start > end), with every later occurrence
\* of an index removed; the five intervals of "1,3,8-12,-5,7-" on 20 pages
\* give 0,2,7,8,9,10,11,1,3,4,6,12..19 and (100,200) on 10 pages gives
\* nothing.
C1_PageIndicesExact ==
    ResolveCalled =>
        /\ pi_ret = Ok(Resolved(pi_ranges, pi_total))
        /\ page_indices(Example5, 20) = Example5Resolved
        /\ page_indices(<< << Some(100), Some(200) >> >>, 10) = << >>

\* "2-3,1-2" on three pages: traversal order kept, the second 1 dropped
C1_Witness ==
    /\ ResolveCalled
    /\ pi_total = 3
    /\ pi_ranges = << << Some(2), Some(3) >>, << Some(1), Some(2) >> >>
    /\ pi_ret = Ok(<< 1, 2, 0 >>)

\* C2: page_indices never raises, whatever the bounds (None, zero,
\* negative, reversed, beyond the document), and its result holds no index
\* twice and only indices i with 0 <= i < total.
C2_IndicesUniqueAndInRange ==
    ResolveCalled =>
        /\ ~Raised(pi_ret)
        /\ \A j \in DOMAIN pi_ret.val :
              /\ 0 <= pi_ret.val[j] /\ pi_ret.val[j] < pi_total
              /\ \A h \in DOMAIN pi_ret.val : h # j => pi_ret.val[h] # pi_ret.val[j]

\* a negative start with an end beyond the document, then a reversed
\* interval with a zero bound: every page once
C2_Witness ==
    /\ ResolveCalled
    /\ pi_total = MaxTotal
    /\ pi_ranges = << << Some(0 - 1), Some(MaxTotal + 1) >>,
                      << Some(2), Some(0) >> >>
    /\ Len(pi_ret.val) = MaxTotal

\* 3 (data model): start and end each clamped into [1, total] from both sides
ClampedBothSides(r, total) ==
    LET clamp(x) == IF x < 1 THEN 1 ELSE IF x > total THEN total ELSE x
        a == clamp(StartOf(r, total))
        b == clamp(EndOf(r, total))
    IN  IF a > b THEN << >> ELSE [ j \in 1..(b - a + 1) |-> a - 2 + j ]

\* C10 as claimed: for total >= 1 every interval contributes what the data
\* model says, start and end both clamped into [1, total] from both sides.
C10_ClampedFromBothSides ==
    (ResolveCalled /\ pi_total >= 1) =>
        /\ \A j \in DOMAIN pi_ranges :
              Contribution(pi_ranges[j], pi_total)
                 = ClampedBothSides(pi_ranges[j], pi_total)
        /\ Len(pi_ranges) = 1 =>
              pi_ret.val = ClampedBothSides(pi_ranges[1], pi_total)

\* the pages of the document that lie in the interval
PagesWithin(r, total) ==
    Ascending({ i \in 0..(total - 1) :
                  StartOf(r, total) <= i + 1 /\ i + 1 <= EndOf(r, total) })

\* C10 as amended: for total >= 1 an interval contributes, in ascending
\* order, exactly the indices i of existing pages (0 <= i < total) with
\* start <= i+1 <= end (None start = 1, None end = total): start is only
\* raised to 1 and end only lowered to total, so an interval that starts
\* beyond the last page or ends before the first contributes nothing.
C10_ClampedFromOneSide ==
    (ResolveCalled /\ pi_total >= 1) =>
        /\ \A j \in DOMAIN pi_ranges :
              Contribution(pi_ranges[j], pi_total)
                 = PagesWithin(pi_ranges[j], pi_total)
        /\ Len(pi_ranges) = 1 =>
              pi_ret.val = PagesWithin(pi_ranges[1], pi_total)

\* an interval wholly beyond the document contributes nothing
C10_Witness ==
    /\ ResolveCalled
    /\ pi_total = MaxTotal
    /\ pi_ranges = << << Some(MaxTotal + 1), Some(MaxTotal + 1) >> >>
    /\ pi_ret = Ok(<< >>)

-----------------------------------------------------------------------------
(* Properties of main(), under Spec. *)

NInputs == Len(args.inputs)

RangeMismatch == args.range # << >> /\ Len(args.range) \notin { 1, NInputs }

\* 4.3: no range spec, one for every input, or one per input by position
RangeFor(i) ==
    IF Len(args.range) = 0 THEN None
    ELSE IF Len(args.range) = 1 THEN Some(args.range[1])
    ELSE Some(args.range[i])

\* the inputs whose file could not be decrypted
Undecrypted ==
    { i \in DOMAIN docs : docs[i].outcome \in { "undecryptable", "not_decrypted" } }

\* the inputs whose pages were appended: loaded, and the iteration completed
Merged == { i \in DOMAIN docs : docs[i].outcome = "ok" /\ i < k }

\* the pages input i selects: all of them in document order without a range
\* or with one of zero intervals, and the resolved indices otherwise
Selection(i) ==
    LET r == RangeFor(i)
        ivs == IF IsNone(r) THEN << >> ELSE parse_range(Val(r)).val
        all == [ j \in 1..docs[i].total |-> << i, j - 1 >> ]
        idx == Resolved(ivs, docs[i].total)
    IN  IF Len(ivs) = 0 THEN all ELSE [ j \in DOMAIN idx |-> << i, idx[j] >> ]

RECURSIVE OutputUpTo(_)
OutputUpTo(n) ==
    IF n = 0 THEN << >>
    ELSE OutputUpTo(n - 1)
           \o (IF docs[n].outcome = "ok" THEN Selection(n) ELSE << >>)

\* the indices i of reader.pages[i] on line 103 for the d-th input
IndicesRead(d) ==
    LET parsed == Rng(ranges[d])
    IN  IF Raised(parsed) \/ parsed.val = << >> THEN << >>
        ELSE page_indices(parsed.val, docs[d].total)

\* C3: in a run that succeeds the output's pages are the concatenation, over
\* the inputs not skipped and in argument order, of each input's selected
\* pages in resolved order (all pages in document order without a range or
\* with a range of zero intervals); one input without a range gives the
\* input's pages in the input's order.  On the way the loop reads no page
\* by an index outside 0..total-1 of its document (stated of the input the
\* loop reached last: docs only grows, so every input is the last once).
C3_OutputIsConcatenation ==
    /\ docs # << >> =>
          LET read == IndicesRead(Len(docs))
          IN  \A j \in DOMAIN read :
                 0 <= read[j] /\ read[j] < docs[Len(docs)].total
    /\ \A j \in DOMAIN stderr : stderr[j] # << "Traceback", "IndexError" >>
    /\ pc = "done" =>
          /\ exit_code = 0
          /\ Len(docs) = NInputs
          /\ Len(outfile.content) = 1
          /\ outfile.content[1].pages = OutputUpTo(NInputs)
          /\ (NInputs = 1 /\ args.range = << >> /\ docs[1].outcome = "ok") =>
                outfile.content[1].pages
                   = [ j \in 1..docs[1].total |-> << 1, j - 1 >> ]

\* "2,1" for the first input and "," for the second, two pages each
C3_Witness ==
    /\ pc = "done"
    /\ args.range = << << "2", ",", "1" >>, << "," >> >>
    /\ outfile.content[1].pages
         = << << 1, 1 >>, << 1, 0 >>, << 2, 0 >>, << 2, 1 >> >>

\* l is what follows the last "/" of path
IsBaseName(l, path) ==
    /\ Len(l) <= Len(path)
    /\ l = SubSeq(path, Len(path) - Len(l) + 1, Len(path))
    /\ "/" \notin Range(l)
    /\ Len(l) < Len(path) => path[Len(path) - Len(l)] = "/"

\* the pages of the accumulator that came from inputs before i
PagesBefore(i) ==
    Cardinality({ p \in DOMAIN writer.pages : writer.pages[p][1] < i })

\* C4: with bookmarking enabled the outline holds exactly one entry per
\* input that was not skipped, in input order, labelled with the input's
\* base filename, at the offset that was the accumulator's page count when
\* the input's pages were about to be appended, also when the input added
\* no page.
C4_BookmarkOffsets ==
    args.bookmarks =>
        /\ \A p, q \in DOMAIN writer.pages :
              p < q => writer.pages[p][1] <= writer.pages[q][1]
        /\ Len(writer.outline) = Cardinality(Merged)
        /\ \A j \in DOMAIN writer.outline :
              /\ IsBaseName(writer.outline[j][1], args.inputs[Ascending(Merged)[j]])
              /\ writer.outline[j][2] = PagesBefore(Ascending(Merged)[j])
        /\ pc = "done" => outfile.content[1].outline = writer.outline

\* two pages from the first input, none from the second ("2-" on one page):
\* the second bookmark points past the last page
C4_Witness ==
    /\ args.bookmarks
    /\ pc = "done"
    /\ Len(writer.pages) = 2
    /\ writer.outline = << << << "f", "1" >>, 0 >>, << << "g", "2" >>, 2 >> >>

\* C5: the output file is opened and written at most once, and only after
\* every input was processed and the metadata applied; a run that ends on a
\* fatal error never opens it; a missing input, at any position, and an
\* undecryptable input without exclude-encrypted end the run with status 1.
C5_OutputWrittenLastOrNever ==
    /\ outfile.opens <= 1
    /\ outfile.opens = 1 =>
          /\ pc = "done"
          /\ Len(docs) = NInputs /\ k = NInputs + 1
          /\ writer.info = args.metadata.keys \cap RecognizedKeys
          /\ outfile.content = << writer >>
    /\ pc = "exited" => outfile = NoFile /\ exit_code \in { 1, 2 }
    /\ (pc # "start" /\ RangeMismatch) => pc = "exited"
    /\ \A i \in DOMAIN docs :
          /\ docs[i].outcome = "missing" => pc = "exited" /\ exit_code = 1
          /\ (i \in Undecrypted /\ ~args.exclude_encrypted) =>
                pc = "exited" /\ exit_code = 1
          /\ (docs[i].outcome = "ok" /\ ~IsNone(RangeFor(i))
                /\ Raised(parse_range(Val(RangeFor(i))))) => pc = "exited"
    /\ (AfterLoop /\ args.metadata.kind = "bad") => pc # "done"
    /\ (pc = "done" \/ pc = "write") => args.metadata.kind # "bad"

\* a missing second input after a first input that was merged
C5_Witness ==
    /\ pc = "exited" /\ exit_code = 1
    /\ Len(docs) = 2
    /\ docs[1].outcome = "ok" /\ docs[2].outcome = "missing"
    /\ writer.pages # << >>
    /\ outfile = NoFile

\* C6: with zero range specs every input gets all its pages, one range spec
\* is applied to every input, N range specs are matched by position, and
\* any other count ends the run with status 2 before any input file is
\* tested or read and before any output exists.
C6_RangeCountReconciliation ==
    pc # "start" =>
        /\ RangeMismatch =>
              /\ pc = "exited" /\ exit_code = 2
              /\ touched = { } /\ docs = << >>
              /\ outfile = NoFile /\ writer = NewWriter
        /\ ~RangeMismatch =>
              /\ exit_code # 2
              /\ Len(ranges) = NInputs
              /\ \A i \in 1..NInputs : ranges[i] = RangeFor(i)
              /\ args.range = << >> =>
                    \A i \in Merged :
                       Cardinality({ p \in DOMAIN writer.pages :
                                       writer.pages[p][1] = i }) = docs[i].total

\* one range spec more than there are inputs
C6_Witness ==
    /\ pc = "exited" /\ exit_code = 2
    /\ Len(args.range) = NInputs + 1
    /\ NInputs = MaxInputs
    /\ touched = { }

C8_QuietMeansSilent ==
    args.quiet => stdout = << >>

=============================================================================
